---- MODULE Spec2Model ----
(***************************************************************************)
(* Model of pkg/monitoring/metrics/virt-controller/vmi_metrics.go:         *)
(* the ephemeral hotplug-volume tracker (volumeTracker), its collector     *)
(* callback and the launcher memory-overhead gauge.                        *)
(*                                                                         *)
(* Go strings are sequences of one-character strings, so that building a   *)
(* tracker key by concatenation and taking it apart with strings.Split are *)
(* real computations.                                                      *)
(***************************************************************************)
EXTENDS Integers, Sequences, FiniteSets, TLC

VARIABLES
    volumes,       \* volumeTracker.volumes: tracker key -> EphemeralStatus
    now,           \* the value time.Now().Unix() returns
    call,          \* the operation that has just run and what it was called with
    pre,           \* volumeTracker.volumes when that operation started
    ret,           \* what it returned: the results of a collector callback
    pc,            \* concurrent callers: where each caller is in its call
    rw,            \* volumeTracker's embedded sync.RWMutex
    nilArgs,       \* concurrent callers: which arguments of the call are nil
    liveNames,     \* concurrent callers: key set of the local vmiVolumeMap
    results,       \* concurrent callers: the local results slice
    gauge,         \* vmiLauncherMemoryOverhead: (namespace, name) -> float64
    lastSet,       \* per (namespace, name): the quantity last handed to Set
    got            \* what the last GetVmiLaucherMemoryOverhead returned

trackerVars == <<volumes, now, call, pre, ret>>
callerVars == <<pc, rw, nilArgs, liveNames, results>>
gaugeVars == <<gauge, lastSet, got>>
vars == <<trackerVars, callerVars, gaugeVars>>

\* A nil pointer.
NULL == [nil |-> TRUE]

----------------------------------------------------------------------------
(* Bounds and program constants *)

\* The clock runs from 0 to MaxTime.
MaxTime == 61

\* The number of concurrent callers.
NumCallers == 2

\* timeThreshold := int64(2)
TimeThreshold == 2

\* if timeDiff <= 60
GraceWindow == 60

\* The clock is sampled at 0 and around the two thresholds: TimeThreshold,
\* TimeThreshold + 1 and GraceWindow .. MaxTime.
Times ==
    {0} \cup {t \in TimeThreshold..MaxTime : t <= TimeThreshold + 1 \/ t >= GraceWindow}

----------------------------------------------------------------------------
(* Names, volumes and the objects handed to UpdateEphemeralVolumeCount *)

Namespaces == {<<"n", "s">>}
VMINames == {<<"a">>, <<"b">>}
VolumeNames == {<<"v", "1">>, <<"w">>}

\* v1.VolumeSource, reduced to the two fields isHotplugVolume reads.
PVCHot == [PersistentVolumeClaim |-> [Hotpluggable |-> TRUE], DataVolume |-> NULL]
PVCCold == [PersistentVolumeClaim |-> [Hotpluggable |-> FALSE], DataVolume |-> NULL]
DVHot == [PersistentVolumeClaim |-> NULL, DataVolume |-> [Hotpluggable |-> TRUE]]
DVCold == [PersistentVolumeClaim |-> NULL, DataVolume |-> [Hotpluggable |-> FALSE]]
OtherSource == [PersistentVolumeClaim |-> NULL, DataVolume |-> NULL]
VolumeSources == {PVCHot, PVCCold, DVHot, DVCold, OtherSource}

Volume(name, source) == [Name |-> name, VolumeSource |-> source]

\* Volume lists with pairwise distinct names (the API server rejects duplicates).
VolumeLists ==
    {<<>>}
    \cup {<<Volume(n, s)>> : n \in VolumeNames, s \in VolumeSources}
    \cup {<<Volume(<<"v", "1">>, s1), Volume(<<"w">>, s2)>> :
            s1 \in {PVCHot, PVCCold}, s2 \in {DVHot, OtherSource}}

\* vm.Spec.Template.Spec.Volumes: only the names are read.
TemplateLists ==
    {<<>>}
    \cup {<<Volume(n, OtherSource)>> : n \in VolumeNames}
    \cup {<<Volume(<<"v", "1">>, PVCHot), Volume(<<"w">>, DVHot)>>}

\* *v1.VirtualMachineInstance arguments.
VMIs ==
    {NULL} \cup
    [Namespace : Namespaces, Name : VMINames, Volumes : VolumeLists]

\* *v1.VirtualMachine arguments.
VMs == {NULL} \cup [Volumes : TemplateLists]

----------------------------------------------------------------------------
(* Strings *)

Delim == "/"

\* strings.Split(s, "/"): the pieces of s between delimiters, in order.
RECURSIVE SplitFrom(_, _, _)
SplitFrom(s, i, cur) ==
    IF i > Len(s) THEN <<cur>>
    ELSE IF s[i] = Delim THEN <<cur>> \o SplitFrom(s, i + 1, <<>>)
    ELSE SplitFrom(s, i + 1, Append(cur, s[i]))

Split(s) == SplitFrom(s, 1, <<>>)

\* The tracker key with the instance name put before the namespace.
TrackerKeyNameFirst(namespace, vmiName, volumeName) ==
    vmiName \o <<Delim>> \o namespace \o <<Delim>> \o volumeName

\* trackerKey := vmi.Namespace + "/" + vmi.Name + "/" + volume.Name
TrackerKey(namespace, vmiName, volumeName) ==
    namespace \o <<Delim>> \o vmiName \o <<Delim>> \o volumeName

\* parseVolumeKey
parseVolumeKey(key) ==
    LET parts == Split(key) IN <<parts[1], parts[2], parts[3]>>

----------------------------------------------------------------------------
(* Maps *)

EmptyMap == [k \in {} |-> NULL]

Put(m, k, v) == [x \in DOMAIN m \cup {k} |-> IF x = k THEN v ELSE m[x]]

Delete(m, k) == [x \in DOMAIN m \ {k} |-> m[x]]

EphemeralStatus(t, c) == [timestamp |-> t, confirmed |-> c]

----------------------------------------------------------------------------
(* UpdateEphemeralVolumeCount *)

\* isHotplugVolume without the reads of Hotpluggable: any claim or data volume.
isHotplugVolumeAnyClaim(volume) ==
    \/ volume.VolumeSource.PersistentVolumeClaim # NULL
    \/ volume.VolumeSource.DataVolume # NULL

isHotplugVolume(volume) ==
    \/ /\ volume.VolumeSource.PersistentVolumeClaim # NULL
       /\ volume.VolumeSource.PersistentVolumeClaim.Hotpluggable
    \/ /\ volume.VolumeSource.DataVolume # NULL
       /\ volume.VolumeSource.DataVolume.Hotpluggable

\* vmVolumeMap after the loop over vm.Spec.Template.Spec.Volumes: its key set.
vmVolumeMap(vm) == {vm.Volumes[i].Name : i \in 1..Len(vm.Volumes)}

\* vmiVolumeMap after the loop over vmi.Spec.Volumes: its key set.
vmiVolumeMap(vmi) ==
    {vmi.Volumes[i].Name : i \in {j \in 1..Len(vmi.Volumes) : isHotplugVolume(vmi.Volumes[j])}}

\* FirstLoopBody with the grace-window deletion left out.
FirstLoopBodyNoGrace(m, vmi, vm, volume, t) ==
    LET trackerKey == TrackerKey(vmi.Namespace, vmi.Name, volume.Name) IN
    IF isHotplugVolume(volume) /\ volume.Name \notin vmVolumeMap(vm)
                               /\ trackerKey \notin DOMAIN m
    THEN Put(m, trackerKey, EphemeralStatus(t, FALSE))
    ELSE m

\* FirstLoopBody with the grace-window test left out: a record whose volume
\* the template declares is deleted whatever its age.
FirstLoopBodyGraceUnbounded(m, vmi, vm, volume, t) ==
    LET trackerKey == TrackerKey(vmi.Namespace, vmi.Name, volume.Name) IN
    IF ~isHotplugVolume(volume) THEN m
    ELSE IF volume.Name \notin vmVolumeMap(vm)
    THEN IF trackerKey \in DOMAIN m
         THEN m
         ELSE Put(m, trackerKey, EphemeralStatus(t, FALSE))
    ELSE Delete(m, trackerKey)

\* One iteration of the loop over vmi.Spec.Volumes, at clock value t.
FirstLoopBody(m, vmi, vm, volume, t) ==
    LET trackerKey == TrackerKey(vmi.Namespace, vmi.Name, volume.Name) IN
    IF ~isHotplugVolume(volume) THEN m
    ELSE IF volume.Name \notin vmVolumeMap(vm)
    THEN IF trackerKey \in DOMAIN m
         THEN m
         ELSE Put(m, trackerKey, EphemeralStatus(t, FALSE))
    ELSE IF trackerKey \notin DOMAIN m
         THEN m
         ELSE IF t - m[trackerKey].timestamp <= GraceWindow
              THEN Delete(m, trackerKey)
              ELSE m

\* The loop over vmi.Spec.Volumes, from index i on.
RECURSIVE FirstLoop(_, _, _, _, _)
FirstLoop(m, vmi, vm, i, t) ==
    IF i > Len(vmi.Volumes) THEN m
    ELSE FirstLoop(FirstLoopBody(m, vmi, vm, vmi.Volumes[i], t), vmi, vm, i + 1, t)

\* Unplugged with the sweep left out.
UnpluggedNever(key, live) == FALSE

\* One iteration of the loop over volumeTracker.volumes: TRUE when the key is
\* deleted.
Unplugged(key, live) == parseVolumeKey(key)[3] \notin live

\* Confirm without the threshold.
ConfirmAtOnce(volumeStatus, t) == EphemeralStatus(volumeStatus.timestamp, TRUE)

\* Confirm with >= for >.
ConfirmAtThreshold(volumeStatus, t) ==
    IF t - volumeStatus.timestamp >= TimeThreshold
    THEN EphemeralStatus(volumeStatus.timestamp, TRUE)
    ELSE volumeStatus

\* Confirm that takes the flag back from a record that has it.
ConfirmForgetful(volumeStatus, t) ==
    IF volumeStatus.confirmed
    THEN EphemeralStatus(volumeStatus.timestamp, FALSE)
    ELSE IF t - volumeStatus.timestamp > TimeThreshold
    THEN EphemeralStatus(volumeStatus.timestamp, TRUE)
    ELSE volumeStatus

\* The status the iteration leaves for a key it keeps.
Confirm(volumeStatus, t) ==
    IF t - volumeStatus.timestamp > TimeThreshold
    THEN EphemeralStatus(volumeStatus.timestamp, TRUE)
    ELSE volumeStatus

\* The loop over volumeTracker.volumes at clock value t; live is the key set of
\* vmiVolumeMap.  Each iteration reads and writes its own key only, so the
\* map's iteration order does not matter.
SecondLoop(m, live, t) ==
    [key \in {k \in DOMAIN m : ~Unplugged(k, live)} |-> Confirm(m[key], t)]

\* The clock values a later read may return when an earlier read returned t:
\* the same second, or the next sample.
LaterReads(t) ==
    {t} \cup {u \in Times : u > t /\ \A w \in Times : w > t => u <= w}

\* AfterFirstLoop with the nil check on vmi only: a nil vm counts as a machine
\* whose template declares nothing.
AfterFirstLoopVmUnchecked(m, vmi, vm, t) ==
    IF vmi = NULL THEN m
    ELSE FirstLoop(m, vmi, IF vm = NULL THEN [Volumes |-> <<>>] ELSE vm, 1, t)

\* The map the nil check and the first loop leave.
AfterFirstLoop(m, vmi, vm, t) ==
    IF vmi = NULL \/ vm = NULL THEN m ELSE FirstLoop(m, vmi, vm, 1, t)

\* The map a whole call leaves: the clock reads t1 in the first loop and t2 in
\* the second.
UpdateResult(m, vmi, vm, t1, t2) ==
    IF vmi = NULL \/ vm = NULL THEN m
    ELSE SecondLoop(AfterFirstLoop(m, vmi, vm, t1), vmiVolumeMap(vmi), t2)

\* The sources the API marks as a hotpluggable claim or data volume.
HotplugSources == {PVCHot, DVHot}

\* What a step records of its operation: op, the namespace and name of the
\* instance, the names of its live volumes with a hotplug source (hotplug)
\* and with any other source (cold), the names the template declares, which
\* arguments were nil, and the clock value the operation started at.
CallRecord(op, vmi, vm, t) ==
    [op |-> op,
     vmiNil |-> vmi = NULL,
     vmNil |-> vm = NULL,
     Namespace |-> IF vmi = NULL THEN <<>> ELSE vmi.Namespace,
     Name |-> IF vmi = NULL THEN <<>> ELSE vmi.Name,
     hotplug |-> IF vmi = NULL THEN {}
                 ELSE {vmi.Volumes[i].Name :
                         i \in {j \in 1..Len(vmi.Volumes) :
                                  vmi.Volumes[j].VolumeSource \in HotplugSources}},
     cold |-> IF vmi = NULL THEN {}
              ELSE {vmi.Volumes[i].Name :
                      i \in {j \in 1..Len(vmi.Volumes) :
                               vmi.Volumes[j].VolumeSource \notin HotplugSources}},
     declared |-> IF vm = NULL THEN {}
                  ELSE {vm.Volumes[i].Name : i \in 1..Len(vm.Volumes)},
     at |-> t]

\* No operation has just run: the callers are between calls.
Idle == call.op = "idle"

UpdateEphemeralVolumeCount(vmi, vm) ==
    /\ Idle
    /\ now' \in LaterReads(now)
    /\ volumes' = UpdateResult(volumes, vmi, vm, now, now')
    /\ call' = CallRecord("observe", vmi, vm, now)
    /\ pre' = volumes
    /\ ret' = EmptyMap
    /\ UNCHANGED <<callerVars, gaugeVars>>

----------------------------------------------------------------------------
(* EphemeralVolumeMetricsCallback *)

MetricName == "kubevirt_vmi_ephemeral_hotplug_volume_total"

CollectorResult(key) ==
    [Metric |-> MetricName, Labels |-> parseVolumeKey(key), Value |-> 1]

\* CollectResults without the test of the confirmed flag.
CollectResultsUnfiltered(m) ==
    LET samples == {CollectorResult(k) : k \in DOMAIN m}
    IN [s \in samples |-> Cardinality({k \in DOMAIN m : CollectorResult(k) = s})]

\* The results slice as a bag: each result with the number of times it is
\* appended.
CollectResults(m) ==
    LET confirmedKeys == {k \in DOMAIN m : m[k].confirmed}
        samples == {CollectorResult(k) : k \in confirmedKeys}
    IN [s \in samples |-> Cardinality({k \in confirmedKeys : CollectorResult(k) = s})]

EphemeralVolumeMetricsCallback ==
    /\ Idle
    /\ ret' = CollectResults(volumes)
    /\ call' = CallRecord("collect", NULL, NULL, now)
    /\ pre' = volumes
    /\ UNCHANGED <<volumes, now, callerVars, gaugeVars>>

----------------------------------------------------------------------------
(* The clock *)

Callers == 1..NumCallers

Tick ==
    /\ Idle
    /\ now' \in {t \in Times : t > now}
    /\ UNCHANGED <<volumes, call, pre, ret, callerVars, gaugeVars>>

\* The caller takes the result and drops its arguments.
Return ==
    /\ ~Idle
    /\ call' = CallRecord("idle", NULL, NULL, 0)
    /\ pre' = EmptyMap
    /\ ret' = EmptyMap
    /\ UNCHANGED <<volumes, now, callerVars, gaugeVars>>

----------------------------------------------------------------------------
(* Concurrent callers.  sync.RWMutex: Lock takes the writers' mutex and
   announces the writer, which keeps new readers out, then waits for the
   active readers to leave; RLock blocks while a writer is announced; Unlock
   admits every blocked reader before it frees the writers' mutex. *)

\* The instances the concurrent callers reconcile.
ConcVMIs == {vmi \in VMIs : vmi = NULL \/ vmi.Name = <<"a">>}

\* A caller enters UpdateEphemeralVolumeCount and calls Lock.
ObsCall(p) ==
    /\ pc[p] = "idle"
    /\ pc' = [pc EXCEPT ![p] = "obs_lock"]
    /\ UNCHANGED <<trackerVars, rw, nilArgs, liveNames, results, gaugeVars>>

\* Lock: the caller gets the writers' mutex and is announced.
ObsLock(p) ==
    /\ pc[p] = "obs_lock"
    /\ rw.writer = 0
    /\ rw' = [rw EXCEPT !.writer = p]
    /\ pc' = [pc EXCEPT ![p] = "obs_wait"]
    /\ UNCHANGED <<trackerVars, nilArgs, liveNames, results, gaugeVars>>

\* Lock returns once no reader is active; the nil check and the loop over
\* vmi.Spec.Volumes.
ObsEnter(p, vmi, vm) ==
    /\ pc[p] = "obs_wait"
    /\ rw.readers = {}
    /\ nilArgs' = [nilArgs EXCEPT ![p] =
                     {a \in {"vmi", "vm"} : (a = "vmi" /\ vmi = NULL) \/ (a = "vm" /\ vm = NULL)}]
    /\ volumes' = AfterFirstLoop(volumes, vmi, vm, now)
    /\ IF vmi = NULL \/ vm = NULL
       THEN /\ pc' = [pc EXCEPT ![p] = "obs_return"]
            /\ UNCHANGED liveNames
       ELSE /\ pc' = [pc EXCEPT ![p] = "obs_sweep"]
            /\ liveNames' = [liveNames EXCEPT ![p] = vmiVolumeMap(vmi)]
    /\ UNCHANGED <<now, call, pre, ret, rw, results, gaugeVars>>

\* The loop over volumeTracker.volumes.
ObsSweep(p) ==
    /\ pc[p] = "obs_sweep"
    /\ volumes' = SecondLoop(volumes, liveNames[p], now)
    /\ pc' = [pc EXCEPT ![p] = "obs_return"]
    /\ UNCHANGED <<now, call, pre, ret, rw, nilArgs, liveNames, results, gaugeVars>>

\* ObsUnlock with Unlock called at the end of the function body instead of
\* deferred: the return after the nil check leaves the lock held.
ObsUnlockNotDeferred(p) ==
    /\ pc[p] = "obs_return"
    /\ IF nilArgs[p] # {}
       THEN /\ rw' = rw
            /\ pc' = [pc EXCEPT ![p] = "idle"]
       ELSE /\ rw' = [writer |-> 0, readers |-> rw.blocked, blocked |-> {}]
            /\ pc' = [q \in Callers |->
                        IF q = p THEN "idle"
                        ELSE IF q \in rw.blocked THEN "col_read" ELSE pc[q]]
    /\ nilArgs' = [nilArgs EXCEPT ![p] = {}]
    /\ liveNames' = [liveNames EXCEPT ![p] = {}]
    /\ UNCHANGED <<trackerVars, results, gaugeVars>>

\* The deferred Unlock: the blocked readers are admitted, the writers' mutex
\* is freed and the call returns.
ObsUnlock(p) ==
    /\ pc[p] = "obs_return"
    /\ rw' = [writer |-> 0, readers |-> rw.blocked, blocked |-> {}]
    /\ pc' = [q \in Callers |->
                IF q = p THEN "idle"
                ELSE IF q \in rw.blocked THEN "col_read" ELSE pc[q]]
    /\ nilArgs' = [nilArgs EXCEPT ![p] = {}]
    /\ liveNames' = [liveNames EXCEPT ![p] = {}]
    /\ UNCHANGED <<trackerVars, results, gaugeVars>>

\* RLock admitting the reader whether or not a writer is announced.
ColRLockUnguarded(p) ==
    /\ pc[p] = "idle"
    /\ rw' = [rw EXCEPT !.readers = @ \cup {p}]
    /\ pc' = [pc EXCEPT ![p] = "col_read"]
    /\ UNCHANGED <<trackerVars, nilArgs, liveNames, results, gaugeVars>>

\* A caller enters EphemeralVolumeMetricsCallback and calls RLock: it blocks
\* when a writer is announced.
ColRLock(p) ==
    /\ pc[p] = "idle"
    /\ IF rw.writer # 0
       THEN /\ rw' = [rw EXCEPT !.blocked = @ \cup {p}]
            /\ pc' = [pc EXCEPT ![p] = "col_blocked"]
       ELSE /\ rw' = [rw EXCEPT !.readers = @ \cup {p}]
            /\ pc' = [pc EXCEPT ![p] = "col_read"]
    /\ UNCHANGED <<trackerVars, nilArgs, liveNames, results, gaugeVars>>

\* ColRead that takes each record it reports out of the ledger.
ColReadConsuming(p) ==
    /\ pc[p] = "col_read"
    /\ results' = [results EXCEPT ![p] = CollectResults(volumes)]
    /\ volumes' = [k \in {x \in DOMAIN volumes : ~volumes[x].confirmed} |-> volumes[k]]
    /\ pc' = [pc EXCEPT ![p] = "col_return"]
    /\ UNCHANGED <<now, call, pre, ret, rw, nilArgs, liveNames, gaugeVars>>

\* The loop that builds results.
ColRead(p) ==
    /\ pc[p] = "col_read"
    /\ results' = [results EXCEPT ![p] = CollectResults(volumes)]
    /\ pc' = [pc EXCEPT ![p] = "col_return"]
    /\ UNCHANGED <<trackerVars, rw, nilArgs, liveNames, gaugeVars>>

\* The deferred RUnlock; the call returns results.
ColRUnlock(p) ==
    /\ pc[p] = "col_return"
    /\ rw' = [rw EXCEPT !.readers = @ \ {p}]
    /\ pc' = [pc EXCEPT ![p] = "idle"]
    /\ results' = [results EXCEPT ![p] = EmptyMap]
    /\ UNCHANGED <<trackerVars, nilArgs, liveNames, gaugeVars>>

----------------------------------------------------------------------------
(* The launcher memory-overhead gauge.  An int64 or the integer a float64
   stands for is a pair of limbs, hi * Base + lo, so that values around 2^53
   fit the model checker's integers. *)

Base == 2^30

Int64(hi, lo) == [hi |-> hi, lo |-> lo]

Zero == Int64(0, 0)

RECURSIVE BitLen(_)
BitLen(n) == IF n = 0 THEN 0 ELSE 1 + BitLen(n \div 2)

LimbBits == BitLen(Base) - 1

\* The significand of a float64 holds 53 bits.
MantissaBits == 53

\* float64(x) for an int64 x >= 0: x when it has at most 53 significant bits,
\* else x rounded to 53 bits, ties to even.
Float64(x) ==
    LET len == IF x.hi = 0 THEN BitLen(x.lo) ELSE LimbBits + BitLen(x.hi)
        drop == len - MantissaBits
        unit == 2^drop
        q == x.lo \div unit
        r == x.lo % unit
        up == r * 2 > unit \/ (r * 2 = unit /\ q % 2 = 1)
        lo == (IF up THEN q + 1 ELSE q) * unit
    IN  IF drop <= 0 THEN x
        ELSE IF lo = Base THEN Int64(x.hi + 1, 0)
        ELSE Int64(x.hi, lo)

\* The values memoryOverhead.Value() takes: 0, 1, 2^30 - 1, 2^53 - 1, 2^53,
\* 2^53 + 1, 2^53 + 3 and 2^53 + 2^30 - 1.
Quantities ==
    {Zero, Int64(0, 1), Int64(0, Base - 1), Int64(2^23 - 1, Base - 1), Int64(2^23, 0),
     Int64(2^23, 1), Int64(2^23, 3), Int64(2^23, Base - 1)}

\* The instances whose overhead is set and read.
GaugeVMIs == {vmi \in VMIs : vmi # NULL /\ vmi.Volumes = <<>>}

\* The label values with the name left out.
LabelValuesNamespaceOnly(vmi) == <<vmi.Namespace, <<>>>>

\* The label values handed to WithLabelValues.
LabelValues(vmi) == <<vmi.Namespace, vmi.Name>>

\* GaugeVec.WithLabelValues: the child for the label values, created with
\* value 0 when it does not exist yet.
WithLabelValues(g, labels) ==
    IF labels \in DOMAIN g THEN g ELSE Put(g, labels, Zero)

SetVmiLaucherMemoryOverhead(vmi, memoryOverhead) ==
    /\ gauge' = Put(WithLabelValues(gauge, LabelValues(vmi)), LabelValues(vmi),
                    Float64(memoryOverhead))
    /\ lastSet' = Put(lastSet, <<vmi.Namespace, vmi.Name>>, memoryOverhead)
    /\ got' = NULL
    /\ UNCHANGED <<trackerVars, callerVars>>

\* What the getter returns when it fails for a child that does not exist.
GetResultNotRecorded(g, labels) ==
    IF labels \in DOMAIN g
    THEN [value |-> g[labels], err |-> NULL]
    ELSE [value |-> Int64(0, -1), err |-> [msg |-> "not recorded"]]

\* What the getter returns: Write copies the child's value into dto and
\* returns no error.
GetResult(g, labels) ==
    [value |-> WithLabelValues(g, labels)[labels], err |-> NULL]

GetVmiLaucherMemoryOverhead(vmi) ==
    /\ gauge' = WithLabelValues(gauge, LabelValues(vmi))
    /\ got' = [Namespace |-> vmi.Namespace, Name |-> vmi.Name,
               value |-> GetResult(gauge, LabelValues(vmi)).value,
               err |-> GetResult(gauge, LabelValues(vmi)).err]
    /\ UNCHANGED <<lastSet, trackerVars, callerVars>>

----------------------------------------------------------------------------

Init ==
    /\ volumes = EmptyMap
    /\ now = 0
    /\ call = CallRecord("idle", NULL, NULL, 0)
    /\ pre = EmptyMap
    /\ ret = EmptyMap
    /\ pc = [p \in Callers |-> "idle"]
    /\ rw = [writer |-> 0, readers |-> {}, blocked |-> {}]
    /\ nilArgs = [p \in Callers |-> {}]
    /\ liveNames = [p \in Callers |-> {}]
    /\ results = [p \in Callers |-> EmptyMap]
    /\ gauge = EmptyMap
    /\ lastSet = EmptyMap
    /\ got = NULL

\* One caller at a time: each step is a whole call.
Next ==
    \/ \E vmi \in VMIs, vm \in VMs : UpdateEphemeralVolumeCount(vmi, vm)
    \/ EphemeralVolumeMetricsCallback
    \/ Tick
    \/ Return

Spec == Init /\ [][Next]_vars

\* Several callers at a time: each step is one stretch of a call.
NextConc ==
    \/ \E p \in Callers :
         \/ ObsCall(p)
         \/ ObsLock(p)
         \/ \E vmi \in ConcVMIs, vm \in VMs : ObsEnter(p, vmi, vm)
         \/ ObsSweep(p)
         \/ ObsUnlock(p)
         \/ ColRLock(p)
         \/ ColRead(p)
         \/ ColRUnlock(p)
    \/ Tick

SpecConc == Init /\ [][NextConc]_vars

\* The arguments of the observe calls whose locking is followed to the end:
\* nil, an instance with no volume, an instance with one hotplug volume; nil,
\* a machine with an empty template.  The clock stands still.
LockVMIs ==
    {NULL} \cup
    {[Namespace |-> ns, Name |-> <<"a">>, Volumes |-> l] :
        ns \in Namespaces,
        l \in {<<>>} \cup {<<Volume(n, PVCHot)>> : n \in VolumeNames}}

LockVMs == {NULL, [Volumes |-> <<>>]}

NextLock ==
    \E p \in Callers :
        \/ ObsCall(p)
        \/ ObsLock(p)
        \/ \E vmi \in LockVMIs, vm \in LockVMs : ObsEnter(p, vmi, vm)
        \/ ObsSweep(p)
        \/ ObsUnlock(p)
        \/ ColRLock(p)
        \/ ColRead(p)
        \/ ColRUnlock(p)

\* Fair scheduling.  The Go scheduler runs every runnable goroutine (weak
\* fairness of each stretch of a call past its lock request); sync.Mutex hands
\* the writers' mutex to a waiter that has waited long (starvation mode), so a
\* caller that keeps asking for it gets it (strong fairness of ObsLock).
\* Starting a call is up to the caller.
FairLock ==
    \A p \in Callers :
        /\ SF_vars(ObsLock(p))
        /\ WF_vars(\E vmi \in LockVMIs, vm \in LockVMs : ObsEnter(p, vmi, vm))
        /\ WF_vars(ObsSweep(p))
        /\ WF_vars(ObsUnlock(p))
        /\ WF_vars(ColRead(p))
        /\ WF_vars(ColRUnlock(p))

SpecLock == Init /\ [][NextLock]_vars /\ FairLock

\* One caller at a time, for instances whose namespaces and names run into
\* each other when written without a delimiter: n + sa and ns + a; each
\* instance has one hotplug volume, v or av, and the template is empty.
KeyInstances == {<<<<"n">>, <<"s", "a">>>>, <<<<"n", "s">>, <<"a">>>>}

KeyVolumeNames == {<<"v">>, <<"a", "v">>}

KeyVMIs ==
    {[Namespace |-> x[1], Name |-> x[2], Volumes |-> <<Volume(n, DVHot)>>] :
        x \in KeyInstances, n \in KeyVolumeNames}

KeyVMs == {[Volumes |-> <<>>]}

NextKeys ==
    \/ \E vmi \in KeyVMIs, vm \in KeyVMs : UpdateEphemeralVolumeCount(vmi, vm)
    \/ EphemeralVolumeMetricsCallback
    \/ Tick
    \/ Return

SpecKeys == Init /\ [][NextKeys]_vars

\* The gauge alone.
NextGauge ==
    \/ \E vmi \in GaugeVMIs, memoryOverhead \in Quantities :
         SetVmiLaucherMemoryOverhead(vmi, memoryOverhead)
    \/ \E vmi \in GaugeVMIs : GetVmiLaucherMemoryOverhead(vmi)

SpecGauge == Init /\ [][NextGauge]_vars

----------------------------------------------------------------------------
(* Properties of the tracker, one call at a time (Spec) *)

\* The sample the collector reports for the volume v of instance (ns, i).
Sample(ns, i, v) == [Metric |-> MetricName, Labels |-> <<ns, i, v>>, Value |-> 1]

\* No result in the bag r carries the labels (ns, i, v).
NoSample(r, ns, i, v) == \A s \in DOMAIN r : s.Labels # <<ns, i, v>>

\* Exactly one result in the bag r carries the labels (ns, i, v): Sample, once.
OneSample(r, ns, i, v) ==
    /\ Sample(ns, i, v) \in DOMAIN r
    /\ r[Sample(ns, i, v)] = 1
    /\ \A s \in DOMAIN r : s.Labels = <<ns, i, v>> => s = Sample(ns, i, v)

\* The last step was an UpdateEphemeralVolumeCount call with both arguments set.
Observed == call.op = "observe" /\ ~call.vmiNil /\ ~call.vmNil

\* ... and the clock did not move while it ran: the call happened at time now.
ObservedAtNow == Observed /\ call.at = now

\* The tracker key of volume v of the instance the last call was for.
CallKey(v) == TrackerKey(call.Namespace, call.Name, v)

\* C1 (first detection): an observe call at time now for an instance with a
\* hotplug volume v that the template does not declare, from a ledger with no
\* record for v, leaves the record (now, unconfirmed), and the collector run on
\* the ledger it leaves returns no sample for v.
C1_FirstDetection ==
    ObservedAtNow =>
        \A v \in call.hotplug \ call.declared :
            CallKey(v) \notin DOMAIN pre =>
                /\ CallKey(v) \in DOMAIN volumes
                /\ volumes[CallKey(v)] = EphemeralStatus(now, FALSE)
                /\ NoSample(CollectResults(volumes), call.Namespace, call.Name, v)

C1_Witness ==
    /\ ObservedAtNow
    /\ \E v \in call.hotplug \ call.declared :
         /\ CallKey(v) \notin DOMAIN pre
         /\ CallKey(v) \in DOMAIN volumes
    /\ \E k \in DOMAIN volumes : volumes[k].confirmed

\* C2 (confirmation after the threshold): an observe call at time now that
\* finds the record of a hotplug, undeclared volume v with timestamp t confirms
\* it when now - t > 2, and the collector then returns exactly one sample for v,
\* with value 1; when now - t <= 2 an unconfirmed record stays unconfirmed and
\* the collector returns nothing for v.
C2_ConfirmAfterThreshold ==
    ObservedAtNow =>
        \A v \in call.hotplug \ call.declared :
            CallKey(v) \in DOMAIN pre =>
                LET t == pre[CallKey(v)].timestamp IN
                /\ CallKey(v) \in DOMAIN volumes
                /\ now - t > 2 =>
                     /\ volumes[CallKey(v)] = EphemeralStatus(t, TRUE)
                     /\ OneSample(CollectResults(volumes), call.Namespace, call.Name, v)
                /\ (now - t <= 2 /\ ~pre[CallKey(v)].confirmed) =>
                     /\ volumes[CallKey(v)] = EphemeralStatus(t, FALSE)
                     /\ NoSample(CollectResults(volumes), call.Namespace, call.Name, v)

\* Both cases happen: a record is confirmed by this call, and another call
\* leaves a record unconfirmed at exactly now - t = 2.
C2_Witness ==
    /\ ObservedAtNow
    /\ \E v \in call.hotplug \ call.declared :
         /\ CallKey(v) \in DOMAIN pre
         /\ ~pre[CallKey(v)].confirmed
         /\ now - pre[CallKey(v)].timestamp > 2
         /\ volumes[CallKey(v)].confirmed

C2_WitnessAtThreshold ==
    /\ ObservedAtNow
    /\ \E v \in call.hotplug \ call.declared :
         /\ CallKey(v) \in DOMAIN pre
         /\ now - pre[CallKey(v)].timestamp = 2
         /\ ~volumes[CallKey(v)].confirmed

\* The tracker key of volume v of instance (ns, i), as a claim names it.
Key(ns, i, v) == TrackerKey(ns, i, v)

\* C3 (grace-window reclassification): an observe call that finds a record of
\* age <= 60 for a hotplug volume the template now declares deletes it,
\* confirmed or not; a key enters the ledger only through an observe call for
\* its own instance that shows the volume hotplug and undeclared, and a key
\* that is not in the ledger has no sample in the collector's output: so the
\* volume stays out of the output for as long as later observe calls of its
\* instance show it declared.
C3_GraceReclassification ==
    /\ [](Observed =>
            \A v \in call.hotplug \cap call.declared :
                (/\ CallKey(v) \in DOMAIN pre
                 /\ call.at - pre[CallKey(v)].timestamp <= 60)
                => CallKey(v) \notin DOMAIN volumes)
    /\ [][\A ns \in Namespaces, i \in VMINames, v \in VolumeNames :
            (Key(ns, i, v) \notin DOMAIN volumes /\ Key(ns, i, v) \in DOMAIN volumes')
            => /\ call'.op = "observe"
               /\ call'.Namespace = ns /\ call'.Name = i
               /\ v \in call'.hotplug \ call'.declared]_vars
    /\ [](\A ns \in Namespaces, i \in VMINames, v \in VolumeNames :
            Key(ns, i, v) \notin DOMAIN volumes
            => /\ NoSample(CollectResults(volumes), ns, i, v)
               /\ call.op = "collect" => NoSample(ret, ns, i, v))

\* A confirmed record, 60 seconds old, has just been deleted by the grace rule.
C3_Witness ==
    /\ Observed
    /\ \E v \in call.hotplug \cap call.declared :
         /\ CallKey(v) \in DOMAIN pre
         /\ pre[CallKey(v)].confirmed
         /\ call.at - pre[CallKey(v)].timestamp = 60
         /\ CallKey(v) \notin DOMAIN volumes

\* C4 (removal sweep): an observe call (both arguments set) for an instance
\* with no live hotplug volume named v leaves no record for v, whatever the
\* record's flag and age and whether or not the template declares v.
C4_RemovalSweep ==
    Observed =>
        \A v \in VolumeNames \ call.hotplug :
            CallKey(v) \in DOMAIN pre => CallKey(v) \notin DOMAIN volumes

\* A confirmed record of a declared volume, older than the grace window, has
\* just been swept.
C4_Witness ==
    /\ Observed
    /\ \E v \in (VolumeNames \ call.hotplug) \cap call.declared :
         /\ CallKey(v) \in DOMAIN pre
         /\ pre[CallKey(v)].confirmed
         /\ call.at - pre[CallKey(v)].timestamp > 60
         /\ CallKey(v) \notin DOMAIN volumes

\* The last call was an observe call for the instance (ns, i).
ObservedFor(ns, i) == Observed /\ call.Namespace = ns /\ call.Name = i

\* C5 (no-reset timer): over observe calls during which v stays a hotplug,
\* undeclared volume of instance (ns, i), the record of v keeps the timestamp
\* of the first detection: every observe call other than one of (ns, i) that
\* shows v not hotplug or declared keeps the record and its timestamp; and a
\* key in the ledger before and after an observe call keeps its timestamp.
C5_NoResetTimer ==
    call.op = "observe" =>
        /\ \A k \in DOMAIN pre \cap DOMAIN volumes :
              volumes[k].timestamp = pre[k].timestamp
        /\ \A ns \in Namespaces, i \in VMINames, v \in VolumeNames :
              (/\ Key(ns, i, v) \in DOMAIN pre
               /\ ObservedFor(ns, i) => v \in call.hotplug \ call.declared)
              => /\ Key(ns, i, v) \in DOMAIN volumes
                 /\ volumes[Key(ns, i, v)].timestamp = pre[Key(ns, i, v)].timestamp

\* The part of C5 that holds: an observe call changes no timestamp.
C5_TimestampKept ==
    call.op = "observe" =>
        \A k \in DOMAIN pre \cap DOMAIN volumes :
            volumes[k].timestamp = pre[k].timestamp

\* C8 (collect output): the collector returns one sample, with value 1 and
\* the record's namespace, instance and volume as labels, for each confirmed
\* record, and nothing else: no sample for an unconfirmed record, an empty
\* result when no record is confirmed.
C8_CollectOutput ==
    call.op = "collect" =>
        /\ \A ns \in Namespaces, i \in VMINames, v \in VolumeNames :
              IF Key(ns, i, v) \in DOMAIN volumes /\ volumes[Key(ns, i, v)].confirmed
              THEN OneSample(ret, ns, i, v)
              ELSE NoSample(ret, ns, i, v)
        /\ \A s \in DOMAIN ret :
              \E ns \in Namespaces, i \in VMINames, v \in VolumeNames :
                  s = Sample(ns, i, v)
        /\ (\A k \in DOMAIN volumes : ~volumes[k].confirmed) => ret = EmptyMap

\* The collector has returned a sample while an unconfirmed record exists.
C8_Witness ==
    /\ call.op = "collect"
    /\ ret # EmptyMap
    /\ \E k \in DOMAIN volumes : ~volumes[k].confirmed
    /\ \E k \in DOMAIN volumes : volumes[k].confirmed

\* C11 (metric soundness): after an observe call for an instance, each volume
\* of that instance the collector would report was, in that call, a hotplug
\* volume of the live instance that the template does not declare; a volume
\* the call saw declared is not reported.
C11_MetricSoundness ==
    Observed =>
        \A v \in VolumeNames :
            ~NoSample(CollectResults(volumes), call.Namespace, call.Name, v)
            => v \in call.hotplug \ call.declared

\* C12 (per-instance isolation): an observe call for one instance leaves every
\* record of every other instance in the ledger, with the same timestamp and
\* flag.
C12_PerInstanceIsolation ==
    call.op = "observe" =>
        \A ns \in Namespaces, i \in VMINames, v \in VolumeNames :
            (Key(ns, i, v) \in DOMAIN pre /\ ~ObservedFor(ns, i))
            => /\ Key(ns, i, v) \in DOMAIN volumes
               /\ volumes[Key(ns, i, v)] = pre[Key(ns, i, v)]

\* C13 (confirmed is monotonic and earned): no step takes the confirmed flag
\* from a record that stays in the ledger; a record gets the flag only in an
\* observe call whose clock reads more than 2 past the record's timestamp; a
\* record's timestamp is the time of the call that put the key in the ledger,
\* and no step changes it while the key stays; so every confirmed record is
\* more than 2 old.
C13_ConfirmedMonotonicEarned ==
    /\ [][\A k \in DOMAIN volumes' :
            /\ (k \in DOMAIN volumes /\ volumes[k].confirmed) => volumes'[k].confirmed
            /\ k \in DOMAIN volumes => volumes'[k].timestamp = volumes[k].timestamp
            /\ k \notin DOMAIN volumes
               => call'.op = "observe" /\ volumes'[k].timestamp = call'.at
            /\ (volumes'[k].confirmed /\ (k \in DOMAIN volumes => ~volumes[k].confirmed))
               => /\ call'.op = "observe"
                  /\ now' - volumes'[k].timestamp > 2]_vars
    /\ [](\A k \in DOMAIN volumes :
            volumes[k].confirmed => now - volumes[k].timestamp > 2)

\* An observe call has kept one record confirmed and confirmed another.
C13_Witness ==
    /\ call.op = "observe"
    /\ \E k \in DOMAIN pre \cap DOMAIN volumes :
         pre[k].confirmed /\ volumes[k].confirmed
    /\ \E k \in DOMAIN pre \cap DOMAIN volumes :
         ~pre[k].confirmed /\ volumes[k].confirmed

\* C14 (no report-then-retract): an observe call that shows a hotplug volume
\* declared in the template deletes no confirmed record of it: a record the
\* grace-window rule deletes was never confirmed.
C14_NoReportThenRetract ==
    Observed =>
        \A v \in call.hotplug \cap call.declared :
            (CallKey(v) \in DOMAIN pre /\ pre[CallKey(v)].confirmed)
            => CallKey(v) \in DOMAIN volumes

\* C15 (post-grace record is kept): an observe call whose first loop reads the
\* clock at t, for an instance with a hotplug volume v that the template
\* declares, keeps a record of v with t - timestamp > 60, timestamp unchanged,
\* and deletes a record with t - timestamp <= 60.
C15_PostGraceKept ==
    Observed =>
        \A v \in call.hotplug \cap call.declared :
            CallKey(v) \in DOMAIN pre =>
                IF call.at - pre[CallKey(v)].timestamp > 60
                THEN /\ CallKey(v) \in DOMAIN volumes
                     /\ volumes[CallKey(v)].timestamp = pre[CallKey(v)].timestamp
                ELSE CallKey(v) \notin DOMAIN volumes

\* A record exactly 61 old has just been kept by a call that saw its volume
\* declared.
C15_Witness ==
    /\ Observed
    /\ \E v \in call.hotplug \cap call.declared :
         /\ CallKey(v) \in DOMAIN pre
         /\ call.at - pre[CallKey(v)].timestamp = 61
         /\ CallKey(v) \in DOMAIN volumes

\* C18 (only hotplug volumes are tracked): a key enters the ledger only in an
\* observe call for its own instance in which its volume is live with a
\* hotpluggable claim or data volume as source; a call creates no record for
\* a live volume with any other source, declared in the template or not.
C18_OnlyHotplugTracked ==
    /\ call.op = "observe" =>
          \A ns \in Namespaces, i \in VMINames, v \in VolumeNames :
              (Key(ns, i, v) \notin DOMAIN pre /\ Key(ns, i, v) \in DOMAIN volumes)
              => ObservedFor(ns, i) /\ v \in call.hotplug
    /\ Observed =>
          \A v \in call.cold : CallKey(v) \notin DOMAIN volumes

\* A call has created a record for one live volume and none for another, a
\* claim not marked hotpluggable that the template does not declare.
C18_Witness ==
    /\ Observed
    /\ \E v \in call.cold \ call.declared : CallKey(v) \notin DOMAIN volumes
    /\ \E v \in call.hotplug :
         CallKey(v) \notin DOMAIN pre /\ CallKey(v) \in DOMAIN volumes

----------------------------------------------------------------------------
(* Properties of the tracker keys (SpecKeys) *)

\* c is not the delimiter.
Plain1(c) == c # Delim

\* s does not contain the delimiter.
Plain(s) == \A j \in 1..Len(s) : s[j] # Delim

\* The strings of length at most 2 over a letter and the delimiter.
ShortStrings ==
    {<<>>} \cup {<<c>> : c \in {"a", Delim}}
           \cup {<<c, d>> : c \in {"a", Delim}, d \in {"a", Delim}}

\* The names of the instances and volumes of SpecKeys, and the plain short
\* strings.
PlainNames ==
    {x[1] : x \in KeyInstances} \cup {x[2] : x \in KeyInstances}
    \cup KeyVolumeNames \cup {s \in ShortStrings : Plain(s)}

\* parseVolumeKey undoes TrackerKey on plain names.
RoundTrip ==
    \A ns \in PlainNames, i \in PlainNames, v \in PlainNames :
        /\ Len(Split(TrackerKey(ns, i, v))) = 3
        /\ parseVolumeKey(TrackerKey(ns, i, v)) = <<ns, i, v>>

\* Distinct triples of plain names have distinct keys.
Injective ==
    \A t \in PlainNames \X PlainNames \X PlainNames,
       u \in PlainNames \X PlainNames \X PlainNames :
        TrackerKey(t[1], t[2], t[3]) = TrackerKey(u[1], u[2], u[3]) => t = u

\* C19 (key round-trip): for namespaces, instance names and volume names
\* without the delimiter, parseVolumeKey applied to the key TrackerKey builds
\* returns the three names, and distinct triples have distinct keys; every
\* key in the ledger splits into exactly three parts; and the key an observe
\* call stores for a volume parses into the call's namespace and instance
\* name and the volume's name.
C19_KeyRoundTrip ==
    /\ RoundTrip
    /\ Injective
    /\ \A k \in DOMAIN volumes : Len(Split(k)) = 3
    /\ Observed =>
          \A v \in call.hotplug \ call.declared :
              \E k \in DOMAIN volumes :
                  parseVolumeKey(k) = <<call.Namespace, call.Name, v>>

\* An observe call has stored a key next to the key of the other instance,
\* with which it would coincide without the delimiters.
C19_Witness ==
    /\ Observed
    /\ Cardinality(DOMAIN volumes) = 2
    /\ \E v \in call.hotplug :
         \E k \in DOMAIN volumes \ DOMAIN pre :
             /\ parseVolumeKey(k) = <<call.Namespace, call.Name, v>>
             /\ \E l \in DOMAIN volumes \ {k} :
                  SelectSeq(l, Plain1) = SelectSeq(k, Plain1)

----------------------------------------------------------------------------
(* Properties of concurrent callers (SpecConc) *)

\* Caller p is inside UpdateEphemeralVolumeCount, past Lock.
InObserve(p) == pc[p] \in {"obs_sweep", "obs_return"}

\* Caller p is inside EphemeralVolumeMetricsCallback, past RLock.
InCollect(p) == pc[p] \in {"col_read", "col_return"}

\* C6 (quiet-skip): an observe call with a nil instance, a nil machine or both
\* goes from the nil check straight to its return, holding the lock; the
\* ledger is the same from the nil check to the return, and the return
\* releases the lock.
C6_QuietSkip ==
    /\ [](\A p \in Callers :
            nilArgs[p] # {} => pc[p] = "obs_return" /\ rw.writer = p)
    /\ [][\A p \in Callers :
            (nilArgs[p] # {} \/ nilArgs'[p] # {}) => volumes' = volumes]_vars
    /\ [][\A p \in Callers :
            (nilArgs[p] # {} /\ pc'[p] # pc[p])
            => pc'[p] = "idle" /\ rw'.writer = 0 /\ p \notin rw'.readers]_vars

\* A call with a nil machine only is at its return, the ledger not empty.
C6_Witness ==
    \E p \in Callers :
        /\ nilArgs[p] = {"vm"}
        /\ pc[p] = "obs_return"
        /\ \E k \in DOMAIN volumes : volumes[k].confirmed

\* C7 (concurrency safety): two observe calls are never past Lock together;
\* no collect call is past RLock while an observe call is past Lock; and the
\* results a collect call returns are the confirmed records of the ledger as
\* it stands at the return, which no observe call is then in the middle of
\* changing.
C7_ConcurrencySafety ==
    /\ \A p \in Callers, q \in Callers :
          p # q => ~(InObserve(p) /\ InObserve(q))
    /\ \A p \in Callers, q \in Callers :
          InCollect(p) => ~InObserve(q)
    /\ \A p \in Callers :
          pc[p] = "col_return" => results[p] = CollectResults(volumes)

\* A collect call holds a sample while another caller's observe call waits in
\* Lock for it to leave.
C7_Witness ==
    \E p \in Callers, q \in Callers :
        /\ pc[p] = "col_return"
        /\ results[p] # EmptyMap
        /\ pc[q] = "obs_wait"

\* An observe call is between its two loops with a record that the second
\* loop will delete: the state no collect call may read.
C7_MidObserve ==
    \E p \in Callers :
        /\ pc[p] = "obs_sweep"
        /\ volumes # SecondLoop(volumes, liveNames[p], now)
        /\ \E q \in Callers : pc[q] = "col_blocked"

\* Caller p takes a step of EphemeralVolumeMetricsCallback: RLock (admitted
\* or blocked), the loop, or RUnlock.
CollectStep(p) ==
    \/ pc[p] = "idle" /\ pc'[p] \in {"col_read", "col_blocked"}
    \/ pc[p] = "col_read" /\ pc'[p] = "col_return"
    \/ pc[p] = "col_return" /\ pc'[p] = "idle"

\* C16 (collect is read-only): no step of a collect call changes the ledger,
\* and no step of any caller changes it while a collect call is past RLock,
\* however many collect calls run together.
C16_CollectReadOnly ==
    [][/\ (\E p \in Callers : CollectStep(p)) => volumes' = volumes
       /\ (\E p \in Callers : InCollect(p)) => volumes' = volumes]_vars

\* Two collect calls have read a ledger with a confirmed and an unconfirmed
\* record and hold their results together.
C16_Witness ==
    /\ \A p \in Callers : p <= 2 => pc[p] = "col_return" /\ results[p] # EmptyMap
    /\ \E k \in DOMAIN volumes : volumes[k].confirmed
    /\ \E k \in DOMAIN volumes : ~volumes[k].confirmed

\* Caller p has started a call and has not returned from it.
InCall(p) == pc[p] # "idle"

\* C17 (lock liveness): a call that returns holds the lock in no mode (an
\* observe call on the quiet-skip path too), and under fair scheduling every
\* started observe or collect call returns: a collect call blocked by a
\* writer is admitted when that writer unlocks, whatever observe calls follow.
C17_LockLiveness ==
    /\ [][\A p \in Callers :
            (InCall(p) /\ ~InCall(p)')
            => /\ rw'.writer # p
               /\ p \notin rw'.readers
               /\ p \notin rw'.blocked]_vars
    /\ \A p \in Callers : InCall(p) ~> ~InCall(p)

\* A collect call is blocked behind an observe call on the quiet-skip path
\* that holds the lock.
C17_Witness ==
    \E p \in Callers, q \in Callers :
        /\ pc[p] = "col_blocked"
        /\ pc[q] = "obs_return"
        /\ nilArgs[q] # {}
        /\ rw.writer = q

----------------------------------------------------------------------------
(* Properties of the memory-overhead gauge (SpecGauge) *)

\* The getter has just returned for a pair that Set was never called on.
GotUnset == got # NULL /\ <<got.Namespace, got.Name>> \notin DOMAIN lastSet

\* The getter has just returned for a pair that Set was called on.
GotSet == got # NULL /\ <<got.Namespace, got.Name>> \in DOMAIN lastSet

\* x <= 2^53
UpTo2Pow53(x) == x.hi < 2^23 \/ (x.hi = 2^23 /\ x.lo = 0)

C10_RoundTrip ==
    GotSet => got.err = NULL /\ got.value = lastSet[<<got.Namespace, got.Name>>]

\* C10 as amended: when the quantity of the most recent Set on a pair is at
\* most 2^53, the getter returns exactly that quantity for the pair, whatever
\* was set on other pairs.
C10_RoundTripUpTo2Pow53 ==
    GotSet =>
        LET x == lastSet[<<got.Namespace, got.Name>>] IN
        /\ got.err = NULL
        /\ UpTo2Pow53(x) => got.value = x

\* The getter has returned 2^53 - 1 for one pair after a later Set of another
\* quantity on the other pair.
C10_Witness ==
    /\ GotSet
    /\ got.value = Int64(2^23 - 1, Base - 1)
    /\ \E l \in DOMAIN lastSet :
         l # <<got.Namespace, got.Name>> /\ lastSet[l] # got.value

====
